---- MODULE Spec2Model ----
(***************************************************************************)
(* Model of go_1brc (src/main.go): the decimal lexer readFloat, the exact  *)
(* float64 reconstruction atof64exact, and the per-station aggregation     *)
(* loop, finalisation and sort of processFile.                             *)
(*                                                                         *)
(* Representation.                                                         *)
(*  - A byte is its numeric value; a string or byte slice is a sequence of *)
(*    bytes.  Go indexes from 0, sequences from 1: s[i] in Go is s[i+1].   *)
(*  - A uint64 is a sequence of decimal digits, most significant first,    *)
(*    without leading zeros (zero is << >>), because the mantissas of      *)
(*    interest (up to 10^19) do not fit the model checker's integers.      *)
(*  - A float64 produced by atof64exact is the record [neg, mant, exp]     *)
(*    standing for the double nearest to (-1)^neg * mant * 10^exp, kept in *)
(*    canonical form (no trailing zero digit in mant) so that equal        *)
(*    doubles are equal records; neg is kept for zero (IEEE signed zero).  *)
(*  - In the aggregation loop readings are compared and summed; there a    *)
(*    float64 is the integer number of 10^-Scale units it is worth, and    *)
(*    the quotient sum/count is an exact fraction in lowest terms.         *)
(*    Sums are therefore exact in the model (float64 rounding of the       *)
(*    running sum is abstracted away).                                     *)
(***************************************************************************)
EXTENDS Integers, Sequences, FiniteSets, TLC

VARIABLES
    pc,            \* processFile: "scan" (in the loop), "aborted" (log.Fatalln), "done"
    stations,      \* processFile: map[string]*StationResult
    token,         \* processFile: scanner.Bytes() of the last Scan
    nlines,        \* number of tokens the scanner has delivered
    hist,          \* history: per key, the readings that reached lines 68-80, in order
    stationsSlice, \* processFile: the finalized, sorted slice
    s,             \* parser pipeline: the input string
    lex,           \* parser pipeline: what readFloat returned
    conv,          \* parser pipeline: what atof64exact returned
    ppc            \* parser pipeline: "in", "lexed", "converted"

vars == <<pc, stations, token, nlines, hist, stationsSlice, s, lex, conv, ppc>>

fileVars == <<pc, stations, token, nlines, hist, stationsSlice>>
parseVars == <<s, lex, conv, ppc>>

----------------------------------------------------------------------------
(* Bytes *)

Semicolon == 59
Plus == 43
Minus == 45
Dot == 46
Zero == 48
Nine == 57

IsDigit(c) == Zero <= c /\ c <= Nine

Rep(c, n) == [k \in 1..n |-> c]

----------------------------------------------------------------------------
(* uint64 values as decimal digit sequences *)

\* mantissa*base + d, for base = 10
MulAdd10(m, d) == IF m = << >> /\ d = 0 THEN << >> ELSE Append(m, d)

\* -1, 0, 1 as a < b, a = b, a > b
RECURSIVE CmpFrom(_, _, _)
CmpFrom(a, b, k) ==
    IF k > Len(a) THEN 0
    ELSE IF a[k] < b[k] THEN -1
    ELSE IF a[k] > b[k] THEN 1
    ELSE CmpFrom(a, b, k + 1)

CmpNat(a, b) ==
    IF Len(a) < Len(b) THEN -1
    ELSE IF Len(a) > Len(b) THEN 1
    ELSE CmpFrom(a, b, 1)

\* m >> 1: each digit takes the odd unit of the digit before it
Half(m) ==
    LET h == [k \in 1..Len(m) |->
                 ((IF k > 1 THEN 10 * (m[k - 1] % 2) ELSE 0) + m[k]) \div 2]
    IN  IF h # << >> /\ h[1] = 0 THEN Tail(h) ELSE h

\* m >> n
RECURSIVE ShiftRight(_, _)
ShiftRight(m, n) ==
    IF n = 0 \/ m = << >> THEN m ELSE ShiftRight(Half(m), n - 1)

Pow10(n) == <<1>> \o Rep(0, n)

\* m * 10^k
ShiftDigits(m, k) == IF m = << >> THEN << >> ELSE m \o Rep(0, k)

----------------------------------------------------------------------------
(* float64 values produced by the conversion *)

RECURSIVE StripZeros(_, _)
StripZeros(m, e) ==
    IF m = << >> THEN [mant |-> << >>, exp |-> 0]
    ELSE IF m[Len(m)] = 0 THEN StripZeros(SubSeq(m, 1, Len(m) - 1), e + 1)
    ELSE [mant |-> m, exp |-> e]

\* the double nearest to (-1)^neg * m * 10^e
F64(neg, m, e) ==
    LET c == StripZeros(m, e)
    IN  [neg |-> neg, mant |-> c.mant, exp |-> c.exp]

F64Zero == [neg |-> FALSE, mant |-> << >>, exp |-> 0]

\* |f| > 10^k, for a float f and k >= 0
AbsGtPow10(f, k) ==
    IF f.mant = << >> THEN FALSE
    ELSE IF f.exp >= 0 THEN CmpNat(ShiftDigits(f.mant, f.exp), Pow10(k)) = 1
    ELSE CmpNat(f.mant, Pow10(k - f.exp)) = 1

----------------------------------------------------------------------------
(* readFloat, src/main.go 115-178 *)

\* a lexer whose digit budget is the 15 digits of an exact integer
maxMantDigits_15 == 19 - 4
maxMantDigits == 19

\* the locals of readFloat before the loop, after the optional sign
ReadFloatStart(str) ==
    LET signed == str[1] = Plus \/ str[1] = Minus
    IN  [mantissa |-> << >>, neg |-> str[1] = Minus, trunc |-> FALSE,
         i |-> IF signed THEN 1 ELSE 0,
         sawdot |-> FALSE, sawdigits |-> FALSE, nd |-> 0, ndMant |-> 0, dp |-> 0]

RECURSIVE ReadFloatLoop(_, _)

\* a lexer that steps over a second point and goes on absorbing digits
SecondDot_Skip(str, st) == ReadFloatLoop(str, [st EXCEPT !.i = @ + 1])
\* case c == '.' with sawdot already set: break loop (lines 140-142)
SecondDot(str, st) == st

\* case c == '.', first one (lines 143-145)
FirstDot(st) == [st EXCEPT !.sawdot = TRUE, !.dp = st.nd, !.i = @ + 1]

\* a lexer that forgets to move the point over a leading zero
LeadingZero_KeepDp(st) == [st EXCEPT !.sawdigits = TRUE, !.i = @ + 1]
\* a leading zero: c == '0' && nd == 0 (lines 148-152)
LeadingZero(st) == [st EXCEPT !.sawdigits = TRUE, !.dp = @ - 1, !.i = @ + 1]

\* a significant digit (lines 148, 153-161)
Digit(st, c) ==
    IF st.ndMant < maxMantDigits THEN
      [st EXCEPT !.sawdigits = TRUE, !.nd = @ + 1, !.mantissa = MulAdd10(@, c - Zero),
                 !.ndMant = @ + 1, !.i = @ + 1]
    ELSE IF c # Zero THEN
      [st EXCEPT !.sawdigits = TRUE, !.nd = @ + 1, !.trunc = TRUE, !.i = @ + 1]
    ELSE
      [st EXCEPT !.sawdigits = TRUE, !.nd = @ + 1, !.i = @ + 1]

\* the loop of lines 136-164, from the locals st; yields the locals at loop exit
ReadFloatLoop(str, st) ==
    IF st.i >= Len(str) THEN st
    ELSE
      LET c == str[st.i + 1]
      IN  IF c = Dot THEN
            IF st.sawdot THEN SecondDot(str, st)
            ELSE ReadFloatLoop(str, FirstDot(st))
          ELSE IF IsDigit(c) THEN
            IF c = Zero /\ st.nd = 0 THEN ReadFloatLoop(str, LeadingZero(st))
            ELSE ReadFloatLoop(str, Digit(st, c))
          ELSE st

\* the named results (mantissa, exp, neg, trunc, hex, i, ok), and the digit
\* counters nd, ndMant the function computed on the way
readFloat(str) ==
    IF 0 >= Len(str) THEN
      [mantissa |-> << >>, exp |-> 0, neg |-> FALSE, trunc |-> FALSE, hex |-> FALSE,
       i |-> 0, ok |-> FALSE, nd |-> 0, ndMant |-> 0]
    ELSE
      LET st == ReadFloatLoop(str, ReadFloatStart(str))
          dp == IF st.sawdot THEN st.dp ELSE st.nd
      IN  IF ~st.sawdigits THEN
            [mantissa |-> st.mantissa, exp |-> 0, neg |-> st.neg, trunc |-> st.trunc,
             hex |-> FALSE, i |-> st.i, ok |-> FALSE, nd |-> st.nd, ndMant |-> st.ndMant]
          ELSE
            [mantissa |-> st.mantissa,
             exp |-> IF st.mantissa # << >> THEN dp - st.ndMant ELSE 0,
             neg |-> st.neg, trunc |-> st.trunc, hex |-> FALSE, i |-> st.i, ok |-> TRUE,
             nd |-> st.nd, ndMant |-> st.ndMant]

----------------------------------------------------------------------------
(* atof64exact, src/main.go 180-223 *)

\* a fast path that admits every integer a float64 holds exactly
mantbits_53 == 52 + 1
mantbits == 52
MaxExactPow10 == 22
MaxExactIntDigits == 15

\* mantissa>>float64info.mantbits != 0
MantissaTooWide(mantissa) == ShiftRight(mantissa, mantbits) # << >>

atof64exact(mantissa, exp, neg) ==
    IF MantissaTooWide(mantissa) THEN [f |-> F64Zero, ok |-> FALSE]
    ELSE
      LET f == F64(neg, mantissa, 0)
      IN  IF exp = 0 THEN [f |-> f, ok |-> TRUE]
          ELSE IF exp > 0 /\ exp <= MaxExactIntDigits + MaxExactPow10 THEN
            LET big == exp > MaxExactPow10
                f1 == IF big THEN F64(neg, mantissa, exp - MaxExactPow10) ELSE f
                e1 == IF big THEN MaxExactPow10 ELSE exp
            IN  IF AbsGtPow10(f1, MaxExactIntDigits) THEN [f |-> f1, ok |-> FALSE]
                ELSE [f |-> F64(f1.neg, f1.mant, f1.exp + e1), ok |-> TRUE]
          ELSE IF exp < 0 /\ exp >= -MaxExactPow10 THEN
            [f |-> F64(neg, mantissa, exp), ok |-> TRUE]
          ELSE [f |-> f, ok |-> FALSE]

----------------------------------------------------------------------------
(* The parser pipeline on its own: lines 63-64 applied to one value string *)

MaxDigits == 21       \* longest run of one digit in a generated literal
MaxFracZeros == 23    \* most zeros between the point and the first digit

DigitBytes == {49, 53, 57}
Signs == {<< >>, <<Plus>>, <<Minus>>}
Tails == {<< >>, <<Dot, 53>>, <<97, 49>>}

Bytes(digits) == [k \in 1..Len(digits) |-> digits[k] + Zero]

\* [sign] [0] d^a ['.' d^b] tail
Fractions(d) == {<< >>} \cup { <<Dot>> \o Rep(d, b) : b \in 0..MaxDigits }

RunLiterals ==
    UNION { { sg \o Rep(Zero, z) \o Rep(d, a) \o fr \o tl :
                sg \in Signs, z \in 0..1, a \in 0..MaxDigits,
                fr \in Fractions(d), tl \in Tails } : d \in DigitBytes }

\* [sign] 0 '.' 0^zf d^b
SmallLiterals ==
    { sg \o <<Zero, Dot>> \o Rep(Zero, zf) \o Rep(d, b) :
        sg \in Signs, zf \in 0..MaxFracZeros, d \in DigitBytes, b \in 1..2 }

\* d 0^n ['.' 0]
RoundLiterals ==
    { <<d>> \o Rep(Zero, n) \o fr :
        d \in DigitBytes, n \in 0..MaxDigits, fr \in {<< >>, <<Dot, Zero>>} }

\* 2^52 - 1, 2^52, 2^53 - 1, 2^53, and the strings the documentation names
EdgeLiterals ==
    { Bytes(<<4,5,0,3,5,9,9,6,2,7,3,7,0,4,9,5>>),
      Bytes(<<4,5,0,3,5,9,9,6,2,7,3,7,0,4,9,6>>),
      Bytes(<<9,0,0,7,1,9,9,2,5,4,7,4,0,9,9,1>>),
      Bytes(<<9,0,0,7,1,9,9,2,5,4,7,4,0,9,9,2>>),
      <<Minus>> \o Bytes(<<9,0,0,7,1,9,9,2,5,4,7,4,0,9,9,1>>),
      <<Zero>>, <<Minus, Zero>>, <<Zero, Zero, Zero>>, <<Dot>>, <<Plus, Minus, 49>>,
      <<Minus, 51, Dot, 53, Zero>>,
      <<49, 50, Dot, 51, 52, Dot, 53, 54>>,
      <<49, 50, Dot, 51, 52>>,
      <<49, 101, 53>> }

Literals == RunLiterals \cup SmallLiterals \cup RoundLiterals \cup EdgeLiterals

NoLex == [mantissa |-> << >>, exp |-> 0, neg |-> FALSE, trunc |-> FALSE, hex |-> FALSE,
          i |-> 0, ok |-> FALSE, nd |-> 0, ndMant |-> 0]
NoConv == [f |-> F64Zero, ok |-> FALSE]

NoStations == [k \in {} |-> 0]

FileIdle ==
    /\ pc = "scan"
    /\ stations = NoStations
    /\ token = << >>
    /\ nlines = 0
    /\ hist = NoStations
    /\ stationsSlice = << >>

ParseInit ==
    /\ FileIdle
    /\ s \in Literals
    /\ lex = NoLex
    /\ conv = NoConv
    /\ ppc = "in"

\* line 63
Lex ==
    /\ ppc = "in"
    /\ lex' = readFloat(s)
    /\ ppc' = "lexed"
    /\ UNCHANGED <<s, conv>>
    /\ UNCHANGED fileVars

\* line 64: called whatever readFloat's ok was
Convert ==
    /\ ppc = "lexed"
    /\ conv' = atof64exact(lex.mantissa, lex.exp, lex.neg)
    /\ ppc' = "converted"
    /\ UNCHANGED <<s, lex>>
    /\ UNCHANGED fileVars

ParseNext == Lex \/ Convert

SpecParse == ParseInit /\ [][ParseNext]_vars

----------------------------------------------------------------------------
(* processFile, src/main.go 40-104 *)

MaxLines == 4    \* tokens the scanner delivers before the end of the file
Scale == 1       \* readings of the file are worth whole multiples of 10^-Scale

\* slices.Index(tok, b): the first index of b, counted from 0, or -1
Index(tok, b) ==
    IF \E k \in 1..Len(tok) : tok[k] = b
    THEN (CHOOSE k \in 1..Len(tok) : tok[k] = b /\ \A j \in 1..(k - 1) : tok[j] # b) - 1
    ELSE -1

\* token[:i] and token[i+1:], for i the index of the semicolon
StationOf(tok) == SubSeq(tok, 1, Index(tok, Semicolon))
ValueOf(tok) == SubSeq(tok, Index(tok, Semicolon) + 2, Len(tok))

\* lines 63-64: readFloat's ok is overwritten by atof64exact's before it is read
ParseReading(str) ==
    LET r == readFloat(str)
    IN  atof64exact(r.mantissa, r.exp, r.neg)

RECURSIVE NatOf(_)
NatOf(m) == IF m = << >> THEN 0 ELSE 10 * NatOf(SubSeq(m, 1, Len(m) - 1)) + m[Len(m)]

\* the float64 f in units of 10^-Scale
Units(f) ==
    LET v == NatOf(f.mant) * 10 ^ (Scale + f.exp)
    IN  IF f.neg THEN -v ELSE v

\* a first reading that leaves the count at its zero value
NewStation_NoCount(station, reading) ==
    [Station |-> station, Min |-> reading, Max |-> reading, Mean |-> reading, Readings |-> 0]
\* line 70
NewStation(station, reading) ==
    [Station |-> station, Min |-> reading, Max |-> reading, Mean |-> reading, Readings |-> 1]

\* an update whose second comparison looks at Min instead of Max
UpdateStation_MaxFromMin(v, reading) ==
    LET v1 == IF v.Min > reading THEN [v EXCEPT !.Min = reading]
              ELSE IF v.Min < reading THEN [v EXCEPT !.Max = reading]
              ELSE v
    IN  [v1 EXCEPT !.Mean = @ + reading, !.Readings = @ + 1]
\* lines 74-80
UpdateStation(v, reading) ==
    LET v1 == IF v.Min > reading THEN [v EXCEPT !.Min = reading]
              ELSE IF v.Max < reading THEN [v EXCEPT !.Max = reading]
              ELSE v
    IN  [v1 EXCEPT !.Mean = @ + reading, !.Readings = @ + 1]

\* lines 68-80: stations after the reading of one record
Put(m, station, reading) ==
    [k \in DOMAIN m \cup {station} |->
        IF k # station THEN m[k]
        ELSE IF station \in DOMAIN m THEN UpdateStation(m[station], reading)
        ELSE NewStation(station, reading)]

Remember(h, station, reading) ==
    [k \in DOMAIN h \cup {station} |->
        IF k # station THEN h[k]
        ELSE IF station \in DOMAIN h THEN Append(h[station], reading)
        ELSE <<reading>>]

RECURSIVE Gcd(_, _)
Gcd(a, b) == IF b = 0 THEN a ELSE Gcd(b, a % b)

Abs(x) == IF x < 0 THEN -x ELSE x

\* sum / float64(n), as a fraction in lowest terms; n = 0 gives an infinity or NaN
Quot(sum, n) ==
    IF n = 0 THEN [num |-> IF sum > 0 THEN 1 ELSE IF sum < 0 THEN -1 ELSE 0, den |-> 0]
    ELSE LET g == Gcd(Abs(sum), n)
         IN  [num |-> sum \div g, den |-> n \div g]

\* lines 87-91
Result(station, r) ==
    [Station |-> station, Min |-> r.Min, Max |-> r.Max,
     Mean |-> Quot(r.Mean, r.Readings), Readings |-> 0]

\* strings.Compare: bytes in order, a proper prefix first
RECURSIVE CompareFrom(_, _, _)
CompareFrom(a, b, k) ==
    IF k > Len(a) /\ k > Len(b) THEN 0
    ELSE IF k > Len(a) THEN -1
    ELSE IF k > Len(b) THEN 1
    ELSE IF a[k] < b[k] THEN -1
    ELSE IF a[k] > b[k] THEN 1
    ELSE CompareFrom(a, b, k + 1)

Compare(a, b) == CompareFrom(a, b, 1)

\* a comparator that orders by length
CompareStations_ByLength(a, b) ==
    IF Len(a.Station) # Len(b.Station) THEN Len(b.Station) - Len(a.Station)
    ELSE Compare(a.Station, b.Station)
\* lines 97-99, the comparator given to slices.SortFunc
CompareStations(a, b) == Compare(a.Station, b.Station)

RECURSIVE InsertSorted(_, _)
InsertSorted(sorted, e) ==
    IF sorted = << >> THEN <<e>>
    ELSE IF CompareStations(e, Head(sorted)) < 0 THEN <<e>> \o sorted
    ELSE <<Head(sorted)>> \o InsertSorted(Tail(sorted), e)

\* slices.SortFunc with CompareStations
RECURSIVE SortFunc(_)
SortFunc(x) ==
    IF x = << >> THEN << >>
    ELSE InsertSorted(SortFunc(SubSeq(x, 1, Len(x) - 1)), x[Len(x)])

\* the orders in which range may visit the keys of a map
RangeOrders(m) ==
    LET n == Cardinality(DOMAIN m)
    IN  {o \in [1..n -> DOMAIN m] : \A a, b \in 1..n : a # b => o[a] # o[b]}

KeyB == <<66>>
KeyBDash == <<66, Minus>>
KeyH == <<72>>

\* the lines of the files considered: readings 1.5, -2, 30, values readFloat
\* fails on ("-" and the empty value), values atof64exact fails on (2^52 and
\* 1e-23), and a line without semicolon; every accepted reading is a whole
\* multiple of 10^-Scale
Lines ==
    { KeyB \o <<Semicolon, 49, Dot, 53>>,
      KeyB \o <<Semicolon, Minus, 50>>,
      KeyB \o <<Semicolon, 51, Zero>>,
      KeyB \o <<Semicolon, Minus>>,
      KeyB \o <<Semicolon>> \o Bytes(<<4,5,0,3,5,9,9,6,2,7,3,7,0,4,9,6>>),
      KeyBDash \o <<Semicolon, 49, Dot, 53>>,
      KeyBDash \o <<Semicolon, Minus, 50>>,
      KeyBDash \o <<Semicolon, Zero, Dot>> \o Rep(Zero, 22) \o <<49>>,
      KeyH \o <<Semicolon, 51, Zero>>,
      KeyH \o <<Semicolon>>,
      <<78>> }

Init ==
    /\ pc = "scan"
    /\ stations = NoStations
    /\ token = << >>
    /\ nlines = 0
    /\ hist = NoStations
    /\ stationsSlice = << >>
    /\ s = << >>
    /\ lex = NoLex
    /\ conv = NoConv
    /\ ppc = "in"

\* line 54-55: scanner.Scan() delivers the next line
Deliver(line) ==
    /\ pc = "scan"
    /\ nlines < MaxLines
    /\ token' = line
    /\ nlines' = nlines + 1
    /\ UNCHANGED stationsSlice
    /\ UNCHANGED parseVars

\* a line without delimiter that ends the run
SkipLine_Fatal(line) ==
    /\ Deliver(line)
    /\ Index(line, Semicolon) < 0
    /\ pc' = "aborted"
    /\ UNCHANGED <<stations, hist>>
\* lines 56-60: no semicolon, continue
SkipLine(line) ==
    /\ Deliver(line)
    /\ Index(line, Semicolon) < 0
    /\ UNCHANGED <<pc, stations, hist>>

\* a failure that is logged and the record dropped
Fatal_Continue(line) ==
    /\ Deliver(line)
    /\ Index(line, Semicolon) >= 0
    /\ ~ParseReading(ValueOf(line)).ok
    /\ UNCHANGED <<pc, stations, hist>>
\* lines 62-67: atof64exact fails, log.Fatalln ends the process
Fatal(line) ==
    /\ Deliver(line)
    /\ Index(line, Semicolon) >= 0
    /\ ~ParseReading(ValueOf(line)).ok
    /\ pc' = "aborted"
    /\ UNCHANGED <<stations, hist>>

\* lines 62-80: the reading is recorded for the station
Record(line) ==
    /\ Deliver(line)
    /\ Index(line, Semicolon) >= 0
    /\ ParseReading(ValueOf(line)).ok
    /\ LET reading == Units(ParseReading(ValueOf(line)).f)
       IN  /\ stations' = Put(stations, StationOf(line), reading)
           /\ hist' = Remember(hist, StationOf(line), reading)
    /\ UNCHANGED pc

\* lines 83-99: Scan returns false; the results are built in the order range
\* visits the map, then sorted
Finalize ==
    /\ pc = "scan"
    /\ \E o \in RangeOrders(stations) :
         stationsSlice' = SortFunc([k \in 1..Len(o) |-> Result(o[k], stations[o[k]])])
    /\ pc' = "done"
    /\ UNCHANGED <<stations, token, nlines, hist>>
    /\ UNCHANGED parseVars

Next ==
    \/ \E line \in Lines : SkipLine(line)
    \/ \E line \in Lines : Fatal(line)
    \/ \E line \in Lines : Record(line)
    \/ Finalize

Spec == Init /\ [][Next]_vars

----------------------------------------------------------------------------
(* The decimal value of a literal, read off the text: the reference the    *)
(* lexer and the conversion are compared with                              *)

Unsigned(str) ==
    IF Len(str) > 0 /\ (str[1] = Plus \/ str[1] = Minus) THEN Tail(str) ELSE str

DotIdx(b) ==
    IF \E k \in 1..Len(b) : b[k] = Dot
    THEN CHOOSE k \in 1..Len(b) : b[k] = Dot /\ \A j \in 1..(k - 1) : b[j] # Dot
    ELSE 0

IntPart(b) == IF DotIdx(b) = 0 THEN b ELSE SubSeq(b, 1, DotIdx(b) - 1)
FracPart(b) == IF DotIdx(b) = 0 THEN << >> ELSE SubSeq(b, DotIdx(b) + 1, Len(b))

AllDigits(b) == \A k \in 1..Len(b) : IsDigit(b[k])

\* the grammar [sign] digits ['.' digits]
IsLiteral(str) ==
    LET b == Unsigned(str)
    IN  /\ Len(IntPart(b)) >= 1
        /\ AllDigits(IntPart(b))
        /\ DotIdx(b) # 0 => Len(FracPart(b)) >= 1
        /\ AllDigits(FracPart(b))

DropLeadingZeros(d) ==
    LET nz == {k \in 1..Len(d) : d[k] # 0}
    IN  IF nz = {} THEN << >>
        ELSE SubSeq(d, CHOOSE k \in nz : \A j \in nz : k <= j, Len(d))

\* the significant digits of a literal
LiteralDigits(str) ==
    LET all == IntPart(Unsigned(str)) \o FracPart(Unsigned(str))
    IN  DropLeadingZeros([k \in 1..Len(all) |-> all[k] - Zero])

SigDigits(str) == Len(LiteralDigits(str))

LiteralValue(str) ==
    F64(Len(str) > 0 /\ str[1] = Minus, LiteralDigits(str), -Len(FracPart(Unsigned(str))))

TwoPow52 == <<4,5,0,3,5,9,9,6,2,7,3,7,0,4,9,6>>
TwoPow53 == <<9,0,0,7,1,9,9,2,5,4,7,4,0,9,9,2>>

HasDigit(b) == \E k \in 1..Len(b) : IsDigit(b[k])
DotCount(b) == Cardinality({k \in 1..Len(b) : b[k] = Dot})

SameLex(a, b) ==
    /\ a.mantissa = b.mantissa
    /\ a.exp = b.exp
    /\ a.neg = b.neg
    /\ a.ok = b.ok
    /\ a.i = b.i

----------------------------------------------------------------------------
(* Claims about the parser pipeline (checked under SpecParse) *)

\* C6: a literal of the grammar with at most 15 significant digits and a lexed
\* exponent of magnitude at most 22 is accepted by readFloat and by atof64exact,
\* and sign * mantissa * 10^exponent is the decimal value of the literal, which
\* is the value converted.
C6_ExactWithinEnvelope ==
    (/\ ppc = "converted"
     /\ IsLiteral(s)
     /\ SigDigits(s) <= 15
     /\ lex.exp >= -22 /\ lex.exp <= 22)
    => /\ lex.ok
       /\ conv.ok
       /\ F64(lex.neg, lex.mantissa, lex.exp) = LiteralValue(s)
       /\ conv.f = LiteralValue(s)

C6_Witness ==
    /\ ppc = "converted"
    /\ IsLiteral(s)
    /\ SigDigits(s) = 15
    /\ lex.exp < 0
    /\ lex.neg
    /\ conv.ok
    /\ conv.f = LiteralValue(s)

\* C7: readFloat parses a prefix: it stops at a second point or at the first
\* byte that is neither a digit nor the first point; what it returns is what it
\* returns for the bytes before the stop alone, and for those bytes followed by
\* the stop byte and any other tail; it succeeds exactly when a digit was seen
\* before the stop.
C7_PrefixParse ==
    ppc # "in" =>
      LET p == SubSeq(s, 1, lex.i)
          u == Unsigned(p)
      IN  /\ lex.i <= Len(s)
          /\ SameLex(readFloat(p), lex)
          /\ AllDigits(SelectSeq(u, LAMBDA c : c # Dot))
          /\ DotCount(u) <= 1
          /\ lex.ok = HasDigit(p)
          /\ lex.i < Len(s) =>
               /\ \/ s[lex.i + 1] = Dot /\ DotCount(u) = 1
                  \/ s[lex.i + 1] # Dot /\ ~IsDigit(s[lex.i + 1])
               /\ \A tl \in Tails :
                    SameLex(readFloat(SubSeq(s, 1, lex.i + 1) \o tl), lex)

C7_Witness ==
    /\ ppc = "lexed"
    /\ s = <<49, 50, Dot, 51, 52, Dot, 53, 54>>
    /\ lex.i = 5
    /\ lex.ok
    /\ lex.mantissa = <<1, 2, 3, 4>>
    /\ lex.exp = -2
    /\ ~lex.neg

\* C8 as claimed: atof64exact rejects every mantissa >= 2^53 and accepts every
\* mantissa < 2^53 with exponent 0, returning the signed mantissa.
C8_Rejects53Bits ==
    ppc = "converted" =>
      /\ CmpNat(lex.mantissa, TwoPow53) >= 0 => ~conv.ok
      /\ (CmpNat(lex.mantissa, TwoPow53) < 0 /\ lex.exp = 0)
           => conv.ok /\ conv.f = F64(lex.neg, lex.mantissa, 0)

\* C8 amended: atof64exact rejects every mantissa >= 2^52 and accepts every
\* mantissa < 2^52 with exponent 0, returning the signed mantissa.
C8_Rejects52Bits ==
    ppc = "converted" =>
      /\ CmpNat(lex.mantissa, TwoPow52) >= 0 => ~conv.ok
      /\ (CmpNat(lex.mantissa, TwoPow52) < 0 /\ lex.exp = 0)
           => conv.ok /\ conv.f = F64(lex.neg, lex.mantissa, 0)

C8_Witness ==
    /\ ppc = "converted"
    /\ lex.mantissa = TwoPow52
    /\ lex.exp = 0
    /\ ~conv.ok

\* C10: a positive exponent out of readFloat means more than 19 significant
\* digits were seen and the mantissa has 19 digits (>= 10^18), and atof64exact
\* rejects it; every accepted reading has exponent <= 0; the mantissa never
\* exceeds 10^19 - 1.
C10_NoPositiveExponentAccepted ==
    ppc # "in" =>
      /\ lex.exp > 0 => lex.nd > 19 /\ CmpNat(lex.mantissa, Pow10(18)) >= 0
      /\ CmpNat(lex.mantissa, Pow10(19)) < 0
      /\ ppc = "converted" =>
           /\ conv.ok => lex.exp <= 0
           /\ lex.exp > 0 => ~conv.ok

C10_Witness ==
    /\ ppc = "converted"
    /\ lex.exp > 0
    /\ lex.nd > 19
    /\ Len(lex.mantissa) = 19
    /\ ~conv.ok

----------------------------------------------------------------------------
(* Claims about processFile (checked under Spec) *)

Range(q) == {q[k] : k \in 1..Len(q)}
MinOf(q) == CHOOSE m \in Range(q) : \A x \in Range(q) : m <= x
MaxOf(q) == CHOOSE m \in Range(q) : \A x \in Range(q) : m >= x

RECURSIVE SumOf(_)
SumOf(q) == IF q = << >> THEN 0 ELSE Head(q) + SumOf(Tail(q))

\* a < b in byte-wise order: they first differ where a has ended or has the
\* smaller byte
ByteLess(a, b) ==
    \E k \in 1..(Len(b)) :
        /\ \A j \in 1..(k - 1) : j <= Len(a) /\ a[j] = b[j]
        /\ k > Len(a) \/ a[k] < b[k]

Entries(k) == {n \in 1..Len(stationsSlice) : stationsSlice[n].Station = k}

\* how many readings were recorded, all keys together
TotalReadings ==
    Cardinality(UNION { {<<k, n>> : n \in 1..Len(hist[k])} : k \in DOMAIN hist })

ScanStep == nlines' = nlines + 1

\* C1: once the file is consumed, the finalized entry of each key has Min the
\* least and Max the greatest of the readings recorded for the key, and Mean
\* their sum divided by their number, in whatever order they arrived.
C1_MinMaxMean ==
    pc = "done" =>
      \A k \in DOMAIN hist :
        \E n \in Entries(k) :
          /\ stationsSlice[n].Min = MinOf(hist[k])
          /\ stationsSlice[n].Max = MaxOf(hist[k])
          /\ stationsSlice[n].Mean.den # 0
          /\ stationsSlice[n].Mean.num * Len(hist[k])
               = SumOf(hist[k]) * stationsSlice[n].Mean.den

\* three readings of one key whose least arrived last and whose greatest
\* arrived between the other two
C1_Witness ==
    /\ pc = "done"
    /\ KeyB \in DOMAIN hist
    /\ Len(hist[KeyB]) = 3
    /\ hist[KeyB][3] < hist[KeyB][1]
    /\ hist[KeyB][1] < hist[KeyB][2]
    /\ \E n \in Entries(KeyB) :
         /\ stationsSlice[n].Min = hist[KeyB][3]
         /\ stationsSlice[n].Max = hist[KeyB][2]

\* C2 as claimed: a record whose value readFloat fails on changes no
\* accumulator and aborts the run.
C2_LexFailureAborts ==
    [][(ScanStep /\ Index(token', Semicolon) >= 0 /\ ~readFloat(ValueOf(token')).ok)
         => (stations' = stations /\ pc' = "aborted")]_vars

\* C3: when atof64exact returns ok=false for a record's value, the run aborts
\* at that record: the accumulators are left as they were, and from then on no
\* record is processed and no result sequence is produced.
C3_ConversionFailureAborts ==
    [][/\ (ScanStep /\ Index(token', Semicolon) >= 0 /\ ~ParseReading(ValueOf(token')).ok)
            => (stations' = stations /\ pc' = "aborted" /\ stationsSlice' = << >>)
       /\ pc = "aborted" => UNCHANGED vars]_vars

C3_Witness ==
    /\ pc = "aborted"
    /\ Index(token, Semicolon) >= 0
    /\ ~ParseReading(ValueOf(token)).ok
    /\ readFloat(ValueOf(token)).ok
    /\ DOMAIN stations # {}
    /\ stationsSlice = << >>

\* C4: the finalized sequence holds exactly one entry per key recorded and is in
\* ascending byte-wise order of key, a key before the keys it is a prefix of.
C4_OnePerKeySorted ==
    pc = "done" =>
      /\ \A k \in DOMAIN hist : Cardinality(Entries(k)) = 1
      /\ \A n \in 1..Len(stationsSlice) : stationsSlice[n].Station \in DOMAIN hist
      /\ \A n \in 1..(Len(stationsSlice) - 1) :
           ByteLess(stationsSlice[n].Station, stationsSlice[n + 1].Station)

C4_Witness ==
    /\ pc = "done"
    /\ Len(stationsSlice) = 3
    /\ stationsSlice[1].Station = KeyB
    /\ stationsSlice[2].Station = KeyBDash
    /\ stationsSlice[3].Station = KeyH
    /\ token = KeyB \o <<Semicolon, 49, Dot, 53>>

\* C5: a line without a semicolon leaves the accumulators as they were and the
\* loop running.
C5_NoDelimiterSkipped ==
    [][(ScanStep /\ Index(token', Semicolon) < 0)
         => (stations' = stations /\ hist' = hist /\ pc' = "scan")]_vars

\* a line without semicolon was skipped and the line after it recorded
C5_Witness ==
    /\ pc = "scan"
    /\ nlines = 3
    /\ Index(token, Semicolon) >= 0
    /\ TotalReadings = 2
    /\ KeyH \in DOMAIN stations

\* C9: every accumulator in stations counts the readings recorded so far for
\* its key, at least one, and its Min and Max bound each of them.
C9_AccumulatorInvariant ==
    /\ DOMAIN stations = DOMAIN hist
    /\ \A k \in DOMAIN stations :
         /\ stations[k].Readings >= 1
         /\ stations[k].Readings = Len(hist[k])
         /\ stations[k].Min <= stations[k].Max
         /\ \A r \in Range(hist[k]) : stations[k].Min <= r /\ r <= stations[k].Max

C9_Witness ==
    /\ pc = "scan"
    /\ KeyB \in DOMAIN stations
    /\ stations[KeyB].Readings = 3
    /\ stations[KeyB].Min < stations[KeyB].Max
    /\ KeyH \in DOMAIN stations

====
